---- MODULE Spec2Model ----
(***************************************************************************)
(* A model of app.py, the CVAT video XML attribute editor.                 *)
(*                                                                         *)
(* app.py is a Streamlit script: every user interaction runs the whole     *)
(* script again, top to bottom, against st.session_state.  The state of    *)
(* the program is the uploaded document, the session store (widget values  *)
(* and the range lists the script keeps there) and what the last run       *)
(* displayed.  One action of the model is one interaction followed by the  *)
(* whole script run it triggers.                                           *)
(*                                                                         *)
(* Text (attribute values, frame attributes, typed input) is a sequence of *)
(* one-character strings, so that strip() and int() are computed.          *)
(***************************************************************************)
EXTENDS Integers, Sequences, FiniteSets, TLC

VARIABLES
    doc,           \* the uploaded document: the <track> elements of xml_bytes
    key_identity,  \* the Streamlit build: TRUE when a keyed widget is identified
                   \* by its key alone, FALSE when its value= argument is part
                   \* of its identity
    ss,            \* st.session_state
    out,           \* what the last script run displayed
    plain          \* the range lists an ordinary sequence would hold (ghost)

vars == <<doc, key_identity, ss, out, plain>>

----------------------------------------------------------------------------
(* Bounds of the exploration.                                              *)

\* number_input values the user enters are drawn from 0..MaxFrame
MaxFrame == 1
\* "Add range" is clicked only while a list is shorter than MaxRanges
MaxRanges == 2
\* the range-editor specification: rows per list and values entered
EditorRanges == 2
EditorFrame == 1
\* the first-N specification: boxes per track and the largest n
MaxBoxes == 4
MaxN == 3

----------------------------------------------------------------------------
(* Text.                                                                   *)

Range(f) == {f[i] : i \in DOMAIN f}

\* characters in code-point order
Alphabet == <<" ", "+", "-", "0", "1", "2", "3", "4", "5", "6", "7", "8", "9",
              "a", "b", "c", "h", "i", "l", "n", "o", "x", "z">>

CharCode(c) == CHOOSE i \in DOMAIN Alphabet : Alphabet[i] = c

IsSpace(c) == c = " "

RECURSIVE LStrip(_)
LStrip(s) == IF s # <<>> /\ IsSpace(Head(s)) THEN LStrip(Tail(s)) ELSE s

RECURSIVE RStrip(_)
RStrip(s) ==
    IF s # <<>> /\ IsSpace(s[Len(s)]) THEN RStrip(SubSeq(s, 1, Len(s) - 1)) ELSE s

\* str.strip()
Strip(s) == RStrip(LStrip(s))

\* s < t for Python strings
RECURSIVE StrLess(_, _)
StrLess(s, t) ==
    IF t = <<>> THEN FALSE
    ELSE IF s = <<>> THEN TRUE
    ELSE IF Head(s) # Head(t) THEN CharCode(Head(s)) < CharCode(Head(t))
    ELSE StrLess(Tail(s), Tail(t))

\* sorted(S) for a set of strings
RECURSIVE Sorted(_)
Sorted(S) ==
    IF S = {} THEN <<>>
    ELSE LET m == CHOOSE x \in S : \A y \in S \ {x} : StrLess(x, y)
         IN <<m>> \o Sorted(S \ {m})

Digits == <<"0", "1", "2", "3", "4", "5", "6", "7", "8", "9">>

IsDigit(c) == \E i \in DOMAIN Digits : Digits[i] = c

DigitVal(c) == (CHOOSE i \in DOMAIN Digits : Digits[i] = c) - 1

RECURSIVE DigitsVal(_, _)
DigitsVal(s, acc) ==
    IF s = <<>> THEN acc ELSE DigitsVal(Tail(s), 10 * acc + DigitVal(Head(s)))

\* int(s): surrounding whitespace, an optional sign, then digits; anything
\* else raises ValueError (ok = FALSE)
ParseInt(s) ==
    LET t == Strip(s)
        signed == t # <<>> /\ Head(t) \in {"+", "-"}
        body == IF signed THEN Tail(t) ELSE t
        ok == body # <<>> /\ \A i \in DOMAIN body : IsDigit(body[i])
    IN [ok |-> ok,
        val |-> IF ~ok THEN 0
                ELSE IF signed /\ Head(t) = "-" THEN 0 - DigitsVal(body, 0)
                ELSE DigitsVal(body, 0)]

----------------------------------------------------------------------------
(* Documents.                                                              *)

Attr(n, t) == [name |-> n, text |-> t]
Frame(t) == [has |-> TRUE, text |-> t]
NoFrame == [has |-> FALSE, text |-> <<>>]
Box(f, as) == [frame |-> f, attrs |-> as]
Track(i, l, as, bs) == [id |-> i, label |-> l, attrs |-> as, boxes |-> bs]

Vis == "Visibility"
Occ == "Occluded"
lo == <<"l", "o">>
hi == <<"h", "i">>
hiPadded == <<" ", "h", "i", " ">>
no == <<"n", "o">>

\* one well-formed track, its boxes not in frame order
DocA ==
    << Track("1", "car",
             << Attr(Vis, lo), Attr(Occ, no) >>,
             << Box(Frame(<<"3">>), << Attr(Vis, lo), Attr(Occ, no) >>),
                Box(Frame(<<"0">>), << Attr(Vis, hiPadded), Attr(Occ, no) >>),
                Box(Frame(<<"1">>), << Attr(Vis, lo) >>),
                Box(Frame(<<"2">>), << Attr(Occ, no), Attr(Vis, lo) >>) >>) >>

\* a malformed export: repeated and nameless attributes, missing and
\* unparsable frames, an attribute with no text, tracks without boxes
DocB ==
    << Track("1", "car",
             << Attr(Vis, lo), Attr(Vis, hi), Attr("", <<"z">>) >>,
             << Box(NoFrame, << Attr(Vis, lo), Attr(Vis, lo) >>),
                Box(Frame(<<"a", "b", "c">>), << Attr(Vis, lo), Attr(Occ, <<>>) >>),
                Box(Frame(<<" ", "1">>), << Attr(Vis, lo) >>),
                Box(Frame(<<"2">>), << Attr(Occ, <<>>) >>),
                Box(Frame(<<"-", "1">>), << Attr(Vis, lo) >>) >>),
       Track("2", "bus", << Attr(Vis, lo) >>, << >>),
       Track("3", "van", << Attr("", <<"z">>) >>, << >>) >>

\* two track elements with the same id and label
DocC ==
    << Track("1", "car",
             << Attr(Vis, lo) >>,
             << Box(Frame(<<"0">>), << Attr(Vis, lo) >>) >>),
       Track("2", "bus",
             << Attr(Vis, lo), Attr(Occ, no) >>,
             << Box(Frame(<<"1">>), << Attr(Vis, lo) >>) >>),
       Track("1", "car",
             << Attr(Occ, no) >>,
             << Box(Frame(<<"2">>), << Attr(Vis, hi) >>),
                Box(Frame(<<"0">>), << Attr(Vis, lo), Attr(Occ, no) >>) >>) >>

\* two track elements with the same id and different labels
DocD ==
    << Track("1", "car",
             << Attr(Vis, lo) >>,
             << Box(Frame(<<"1">>), << Attr(Vis, lo) >>) >>),
       Track("1", "bus",
             << >>,
             << Box(Frame(<<"0">>), << Attr(Vis, hi) >>),
                Box(Frame(<<"2">>), << Attr(Vis, lo) >>) >>) >>

----------------------------------------------------------------------------
(* The catalogue the script builds on every run (lines 50-114).            *)

AllTracks == "Apply to ALL tracks"
SpecificTracks == "Select specific tracks"

EntireTrack == "Entire track"
SingleRange == "Single frame range"
MultipleRanges == "Multiple frame ranges"

\* the selectbox entry that asks for a typed value
CustomChoice == <<"Custom value">>

\* every <attribute> under a track or under one of its boxes
TrackAttributes(t) ==
    Range(t.attrs) \cup UNION {Range(t.boxes[b].attrs) : b \in DOMAIN t.boxes}

\* attribute_values: name -> set of stripped values; nameless entries skipped
attribute_values(d) ==
    LET all == UNION {TrackAttributes(d[i]) : i \in DOMAIN d}
        names == {a.name : a \in all} \ {""}
    IN [n \in names |-> {Strip(a.text) : a \in {x \in all : x.name = n}}]

\* existing_values_for: the non-empty values, sorted
existing_values_for(d, attr_name) ==
    LET av == attribute_values(d)
        values == IF attr_name \in DOMAIN av THEN av[attr_name] ELSE {}
    IN Sorted({v \in values : v # <<>>})

\* the options of the "New value" selectbox; the first one is its default
ValueOptions(d, attr_name) == existing_values_for(d, attr_name) \o <<CustomChoice>>

\* track_label_to_id: the label "<id> - <label>" is the pair <<id, label>>
track_label_to_id(d) ==
    [l \in {<<d[i].id, d[i].label>> : i \in DOMAIN d} |-> l[1]]

AllTrackIds(d) == {d[i].id : i \in DOMAIN d}

\* selected_track_ids (lines 103-114)
SelectedTrackIds(d, s) ==
    IF s.mode = SpecificTracks
    THEN {track_label_to_id(d)[s.sel_labels[i]] : i \in DOMAIN s.sel_labels}
    ELSE AllTrackIds(d)

----------------------------------------------------------------------------
(* Widgets.                                                                *)

DefaultSingleStart == 0
DefaultSingleEnd == 10

\* scope_* and ranges_* keys: <<"global", attr>> or <<track id, attr>>
SlotKey(mode, t_id, attr_name) ==
    IF mode = AllTracks THEN <<"global", attr_name>> ELSE <<t_id, attr_name>>

\* st.number_input(value=value, key=...) for a row of the range editor.
\* `has` and `w` are the state the session holds for that key.  The widget
\* keeps its state when its identity is unchanged, otherwise it is a new
\* widget showing `value`.
NumberInput(kid, has, w, value) ==
    IF has /\ (kid \/ w.default = value)
    THEN [ret |-> w.value,
          w |-> IF kid THEN [default |-> w.value, value |-> w.value] ELSE w]
    ELSE [ret |-> value, w |-> [default |-> value, value |-> value]]

NoClick == [kind |-> "none", key |-> <<>>, idx |-> 0]

RECURSIVE DeleteIndices(_, _)
\* for idx in reversed(delete_indices): del lst[idx]
DeleteIndices(lst, rev) ==
    IF rev = <<>> THEN lst
    ELSE LET i == Head(rev)
         IN DeleteIndices(SubSeq(lst, 1, i - 1) \o SubSeq(lst, i + 1, Len(lst)),
                          Tail(rev))

Reversed(s) == [i \in 1..Len(s) |-> s[Len(s) + 1 - i]]

\* ranges_ui (lines 165-199) for one key: the rows are drawn from the list,
\* each row's start and end are overwritten by what its widgets return, the
\* clicked row is deleted, a clicked "Add range" appends (0, 0)
ranges_ui(kid, key, s, click) ==
    LET lst == IF key \in DOMAIN s.ranges THEN s.ranges[key] ELSE <<>>
        ws == IF key \in DOMAIN s.row_widgets THEN s.row_widgets[key] ELSE <<>>
        inp(idx, field) ==
            NumberInput(kid, idx <= Len(ws),
                        IF idx <= Len(ws) THEN ws[idx][field]
                        ELSE [default |-> 0, value |-> 0],
                        lst[idx][field])
        synced == [idx \in 1..Len(lst) |->
                      [start |-> inp(idx, "start").ret, end |-> inp(idx, "end").ret]]
        widgets == [idx \in 1..Len(lst) |->
                      [start |-> inp(idx, "start").w, end |-> inp(idx, "end").w]]
        delete_indices ==
            IF click.kind = "del" /\ click.key = key /\ click.idx <= Len(lst)
            THEN <<click.idx>> ELSE <<>>
        deleted == DeleteIndices(synced, Reversed(delete_indices))
        added == IF click.kind = "add" /\ click.key = key
                 THEN Append(deleted, [start |-> 0, end |-> 0])
                 ELSE deleted
    IN [list |-> added, widgets |-> widgets]

----------------------------------------------------------------------------
(* The apply block (lines 284-457).                                        *)

\* get_new_value (lines 287-291)
get_new_value(s, attr_name) ==
    LET choice == s.value_choice[attr_name]
    IN IF choice = CustomChoice
       THEN Strip(IF attr_name \in DOMAIN s.custom_value
                  THEN s.custom_value[attr_name] ELSE <<>>)
       ELSE choice

\* st.session_state.get("scope_...", "Entire track")
ScopeOf(s, key) == IF key \in DOMAIN s.scope THEN s.scope[key] ELSE EntireTrack

\* the range of the two "single_*" widgets, each read with default 0
SingleOf(s, key) ==
    IF key \in DOMAIN s.single THEN s.single[key] ELSE [start |-> 0, end |-> 0]

\* st.session_state.get("ranges_...", [])
RangesOf(s, key) == IF key \in DOMAIN s.ranges THEN s.ranges[key] ELSE <<>>

RECURSIVE RangeListInvalid(_, _)
\* for r in ranges: if r["end"] < r["start"]: error
RangeListInvalid(ranges, i) ==
    IF i > Len(ranges) THEN FALSE
    ELSE IF ranges[i].end < ranges[i].start THEN TRUE
    ELSE RangeListInvalid(ranges, i + 1)

\* the checks of one scope key (lines 301-320, 325-347)
ScopeInvalid(s, key) ==
    LET scope == ScopeOf(s, key)
    IN IF scope = SingleRange
       THEN SingleOf(s, key).end < SingleOf(s, key).start
       ELSE IF scope = MultipleRanges
       THEN RangeListInvalid(RangesOf(s, key), 1)
       ELSE FALSE

RECURSIVE TracksInvalid(_, _, _, _)
\* for track_label in selected_track_labels (lines 323-347)
TracksInvalid(d, s, attr_name, i) ==
    IF i > Len(s.sel_labels) THEN FALSE
    ELSE IF ScopeInvalid(s, <<track_label_to_id(d)[s.sel_labels[i]], attr_name>>)
    THEN TRUE
    ELSE TracksInvalid(d, s, attr_name, i + 1)

\* ValidationFails leaving the loop after the rule it is at
ValidationFirstRule(d, s, i) ==
    IF i > Len(s.selected_attrs) THEN FALSE
    ELSE \/ get_new_value(s, s.selected_attrs[i]) = <<>>
         \/ IF s.mode = AllTracks
            THEN ScopeInvalid(s, <<"global", s.selected_attrs[i]>>)
            ELSE TracksInvalid(d, s, s.selected_attrs[i], 1)

RECURSIVE ValidationFails(_, _, _)
\* the validation loop (lines 294-347): TRUE when it reaches st.error/st.stop
ValidationFails(d, s, i) ==
    IF i > Len(s.selected_attrs) THEN FALSE
    ELSE LET attr_name == s.selected_attrs[i]
         IN IF get_new_value(s, attr_name) = <<>> THEN TRUE
            ELSE IF (IF s.mode = AllTracks
                     THEN ScopeInvalid(s, <<"global", attr_name>>)
                     ELSE TracksInvalid(d, s, attr_name, 1))
            THEN TRUE
            ELSE ValidationFails(d, s, i + 1)

\* "ranges" of one track and attribute (lines 366-404); none = TRUE is the
\* code's None, "all frames"
ResolveRanges(s, t_id, attr_name) ==
    LET key == SlotKey(s.mode, t_id, attr_name)
        scope == ScopeOf(s, key)
    IN IF scope = EntireTrack THEN [none |-> TRUE, list |-> <<>>]
       ELSE IF scope = SingleRange THEN [none |-> FALSE, list |-> <<SingleOf(s, key)>>]
       ELSE [none |-> FALSE, list |-> RangesOf(s, key)]

\* FrameIdx with a frame that is missing or no integer put before every
\* frame instead of at 0
FrameIdxSkip(box) ==
    LET p == ParseInt(IF box.frame.has THEN box.frame.text ELSE <<>>)
    IN IF p.ok THEN p.val ELSE -1

\* frame_idx (lines 423-426)
FrameIdx(box) ==
    LET p == ParseInt(IF box.frame.has THEN box.frame.text ELSE <<"0">>)
    IN IF p.ok THEN p.val ELSE 0

\* InAnyRange with the end of a range excluded
InAnyRangeExclusive(frame_idx, ranges) ==
    \E i \in DOMAIN ranges : ranges[i].start <= frame_idx /\ frame_idx < ranges[i].end

\* any(r["start"] <= frame_idx <= r["end"] for r in ranges)
InAnyRange(frame_idx, ranges) ==
    \E i \in DOMAIN ranges : ranges[i].start <= frame_idx /\ frame_idx <= ranges[i].end

RECURSIVE BoxesToChange(_, _, _)
\* boxes_to_change (lines 418-431), as the indices of the boxes
BoxesToChange(boxes, ranges, i) ==
    IF i > Len(boxes) THEN <<>>
    ELSE IF ranges.none \/ InAnyRange(FrameIdx(boxes[i]), ranges.list)
    THEN <<i>> \o BoxesToChange(boxes, ranges, i + 1)
    ELSE BoxesToChange(boxes, ranges, i + 1)

\* The rewrite loops work on the state m of the apply block:
\* [root, total_changed_tracks, total_changed_track_attrs,
\*  total_changed_box_attrs, track_changed]; t, b and i index the track, the
\* box and the attribute the loops are at.

\* the body of "for attr in track.findall('attribute')" (lines 408-411)
TrackAttrStep(m, t, i, attr_name, new_val) ==
    IF m.root[t].attrs[i].name = attr_name
    THEN [m EXCEPT !.root[t].attrs[i].text = new_val,
                   !.total_changed_track_attrs = @ + 1,
                   !.track_changed = TRUE]
    ELSE m

RECURSIVE TrackAttrLoop(_, _, _, _, _)
\* lines 407-411
TrackAttrLoop(m, t, i, attr_name, new_val) ==
    IF i > Len(m.root[t].attrs) THEN m
    ELSE TrackAttrLoop(TrackAttrStep(m, t, i, attr_name, new_val), t, i + 1,
                       attr_name, new_val)

\* BoxAttrStep without the test of the attribute's name
BoxAttrStepAnyName(m, t, b, i, attr_name, new_val) ==
    [m EXCEPT !.root[t].boxes[b].attrs[i].text = new_val,
              !.total_changed_box_attrs = @ + 1,
              !.track_changed = TRUE]

\* the body of "for attr in box.findall('attribute')" (lines 435-438)
BoxAttrStep(m, t, b, i, attr_name, new_val) ==
    IF m.root[t].boxes[b].attrs[i].name = attr_name
    THEN [m EXCEPT !.root[t].boxes[b].attrs[i].text = new_val,
                   !.total_changed_box_attrs = @ + 1,
                   !.track_changed = TRUE]
    ELSE m

RECURSIVE BoxAttrLoop(_, _, _, _, _, _)
\* lines 434-438
BoxAttrLoop(m, t, b, i, attr_name, new_val) ==
    IF i > Len(m.root[t].boxes[b].attrs) THEN m
    ELSE BoxAttrLoop(BoxAttrStep(m, t, b, i, attr_name, new_val), t, b, i + 1,
                     attr_name, new_val)

RECURSIVE BoxLoop(_, _, _, _, _, _)
\* for box in boxes_to_change (lines 433-438)
BoxLoop(m, t, boxes_to_change, k, attr_name, new_val) ==
    IF k > Len(boxes_to_change) THEN m
    ELSE BoxLoop(BoxAttrLoop(m, t, boxes_to_change[k], 1, attr_name, new_val),
                 t, boxes_to_change, k + 1, attr_name, new_val)

\* lines 413-438, after the track-level loop: nothing for a track without
\* boxes, otherwise select the boxes and rewrite them
BoxLevel(m, t, ranges, attr_name, new_val) ==
    IF m.root[t].boxes = <<>> THEN m
    ELSE BoxLoop(m, t, BoxesToChange(m.root[t].boxes, ranges, 1), 1,
                 attr_name, new_val)

\* AttrBody with the track-level loop run under "Entire track" only
AttrBodyScoped(s, m, t, attr_name) ==
    BoxLevel(IF ResolveRanges(s, m.root[t].id, attr_name).none
             THEN TrackAttrLoop(m, t, 1, attr_name, get_new_value(s, attr_name))
             ELSE m,
             t, ResolveRanges(s, m.root[t].id, attr_name),
             attr_name, get_new_value(s, attr_name))

\* the body of "for attr_name in selected_attrs" (lines 364-438)
AttrBody(s, m, t, attr_name) ==
    BoxLevel(TrackAttrLoop(m, t, 1, attr_name, get_new_value(s, attr_name)),
             t, ResolveRanges(s, m.root[t].id, attr_name),
             attr_name, get_new_value(s, attr_name))

RECURSIVE AttrLoop(_, _, _, _)
\* for attr_name in selected_attrs (line 363)
AttrLoop(s, m, t, i) ==
    IF i > Len(s.selected_attrs) THEN m
    ELSE AttrLoop(s, AttrBody(s, m, t, s.selected_attrs[i]), t, i + 1)

\* CountTrack counting every track the loop went through
CountTrackAlways(m) == [m EXCEPT !.total_changed_tracks = @ + 1]

\* lines 440-441
CountTrack(m) ==
    IF m.track_changed THEN [m EXCEPT !.total_changed_tracks = @ + 1] ELSE m

\* TrackBody without the filter on the track's id
TrackBodyAll(s, selected_track_ids, m, t) ==
    CountTrack(AttrLoop(s, [m EXCEPT !.track_changed = FALSE], t, 1))

\* TrackBody taking an id for one track: only the first element that has it
TrackBodyFirstOfId(s, selected_track_ids, m, t) ==
    IF \/ m.root[t].id \notin selected_track_ids
       \/ \E u \in 1..(t - 1) : m.root[u].id = m.root[t].id
    THEN m
    ELSE CountTrack(AttrLoop(s, [m EXCEPT !.track_changed = FALSE], t, 1))

\* the body of "for track in new_root.findall('.//track')" (lines 357-441)
TrackBody(s, selected_track_ids, m, t) ==
    IF m.root[t].id \notin selected_track_ids THEN m
    ELSE CountTrack(AttrLoop(s, [m EXCEPT !.track_changed = FALSE], t, 1))

RECURSIVE TrackLoop(_, _, _, _)
\* line 356
TrackLoop(s, selected_track_ids, m, t) ==
    IF t > Len(m.root) THEN m
    ELSE TrackLoop(s, selected_track_ids, TrackBody(s, selected_track_ids, m, t),
                   t + 1)

\* what a run displays when nothing was applied
NoOutput(status) ==
    [status |-> status, new_root |-> <<>>, total_changed_tracks |-> 0,
     total_changed_track_attrs |-> 0, total_changed_box_attrs |-> 0]

\* what the success message and the download button show (lines 443-457)
Report(m) ==
    [status |-> "done", new_root |-> m.root,
     total_changed_tracks |-> m.total_changed_tracks,
     total_changed_track_attrs |-> m.total_changed_track_attrs,
     total_changed_box_attrs |-> m.total_changed_box_attrs]

\* the apply block (lines 284-457): validate, re-parse, rewrite, report
ApplyBlock(d, s, selected_track_ids) ==
    IF ValidationFails(d, s, 1) THEN NoOutput("error")
    ELSE Report(TrackLoop(s, selected_track_ids,
                          [root |-> d, total_changed_tracks |-> 0,
                           total_changed_track_attrs |-> 0,
                           total_changed_box_attrs |-> 0, track_changed |-> FALSE],
                          1))

----------------------------------------------------------------------------
(* The "first N frames" scope.  The script under src/ offers three scopes  *)
(* and not this one; it is modelled from the specification's definition    *)
(* (the track's boxes sorted ascending by frame, stably, and the first n   *)
(* of them taken) and writes through the loops above.                      *)

RECURSIVE InsertByFrame(_, _, _)
\* box b put into a list of boxes sorted by frame, behind those of its frame
InsertByFrame(boxes, sorted, b) ==
    IF sorted = <<>> THEN <<b>>
    ELSE IF FrameIdx(boxes[b]) < FrameIdx(boxes[Head(sorted)])
    THEN <<b>> \o sorted
    ELSE <<Head(sorted)>> \o InsertByFrame(boxes, Tail(sorted), b)

RECURSIVE SortedByFrame(_, _)
\* the boxes 1..i, sorted ascending by frame, stably
SortedByFrame(boxes, i) ==
    IF i = 0 THEN <<>>
    ELSE InsertByFrame(boxes, SortedByFrame(boxes, i - 1), i)

RECURSIVE BelowFrame(_, _, _)
\* the boxes from i on whose frame is below n
BelowFrame(boxes, n, i) ==
    IF i > Len(boxes) THEN <<>>
    ELSE IF FrameIdx(boxes[i]) < n THEN <<i>> \o BelowFrame(boxes, n, i + 1)
    ELSE BelowFrame(boxes, n, i + 1)

\* FirstN by threshold: the boxes whose frame is below n
FirstNThreshold(boxes, n) == BelowFrame(boxes, n, 1)

\* the first n boxes of the track by frame
FirstN(boxes, n) ==
    SubSeq(SortedByFrame(boxes, Len(boxes)), 1,
           IF n < Len(boxes) THEN n ELSE Len(boxes))

FirstNLevel(m, t, n, attr_name, new_val) ==
    IF m.root[t].boxes = <<>> THEN m
    ELSE BoxLoop(m, t, FirstN(m.root[t].boxes, n), 1, attr_name, new_val)

FirstNBody(m, t, n, attr_name, new_val) ==
    CountTrack(FirstNLevel(
        TrackAttrLoop([m EXCEPT !.track_changed = FALSE], t, 1, attr_name, new_val),
        t, n, attr_name, new_val))

RECURSIVE FirstNLoop(_, _, _, _, _)
FirstNLoop(m, t, n, attr_name, new_val) ==
    IF t > Len(m.root) THEN m
    ELSE FirstNLoop(FirstNBody(m, t, n, attr_name, new_val), t + 1, n,
                    attr_name, new_val)

\* one rule with the scope "first n frames" applied to every track of d
ApplyFirstN(d, n, attr_name, new_val) ==
    [status |-> "done", first_n |-> n,
     report |-> Report(FirstNLoop([root |-> d, total_changed_tracks |-> 0,
                                   total_changed_track_attrs |-> 0,
                                   total_changed_box_attrs |-> 0,
                                   track_changed |-> FALSE],
                                  1, n, attr_name, new_val))]

----------------------------------------------------------------------------
(* One run of the script.                                                  *)

EmptyMap == [k \in {} |-> 0]

\* a session with nothing in it: the store before the first run
EmptyStore ==
    [mode |-> AllTracks, sel_labels |-> <<>>, selected_attrs |-> <<>>,
     value_choice |-> EmptyMap, custom_value |-> EmptyMap, scope |-> EmptyMap,
     single |-> EmptyMap, ranges |-> EmptyMap, row_widgets |-> EmptyMap]

\* The script, top to bottom, on the store `s` the browser sent (the widget the
\* user touched already holds its new value) with `click` the button pressed.
\* A widget the run does not draw loses its state; a list under a "ranges_*"
\* key is not a widget and stays.  Every reader of such a key takes a missing
\* key for [] (lines 167-168, 313, 340, 383, 402), so the store keeps only the
\* lists that are not empty.  st.stop() (lines 110, 130) ends the run
\* before the later widgets are drawn.  Two selected labels with the same
\* track id make the second st.radio raise on its duplicate key: the run ends
\* there and the widgets of the scope section keep what they held.
Script(d, kid, s, click) ==
    LET l2id == track_label_to_id(d)
        specific == s.mode = SpecificTracks
        labels == IF specific THEN s.sel_labels ELSE <<>>
        selected_track_ids == SelectedTrackIds(d, s)
        attrs == IF specific /\ labels = <<>> THEN <<>> ELSE s.selected_attrs
        stopped == attrs = <<>>
        choice == [a \in Range(attrs) |->
                      IF a \in DOMAIN s.value_choice THEN s.value_choice[a]
                      ELSE ValueOptions(d, a)[1]]
        custom == [a \in {x \in Range(attrs) : choice[x] = CustomChoice} |->
                      IF a \in DOMAIN s.custom_value THEN s.custom_value[a]
                      ELSE <<>>]
        duplicate_key ==
            \E i, j \in DOMAIN labels : i < j /\ l2id[labels[i]] = l2id[labels[j]]
        slots == IF stopped THEN {}
                 ELSE {SlotKey(s.mode, t_id, a) : t_id \in selected_track_ids,
                                                   a \in Range(attrs)}
        scope == [k \in slots |-> ScopeOf(s, k)]
        single == [k \in {x \in slots : scope[x] = SingleRange} |->
                      IF k \in DOMAIN s.single THEN s.single[k]
                      ELSE [start |-> DefaultSingleStart, end |-> DefaultSingleEnd]]
        multi == {x \in slots : scope[x] = MultipleRanges}
        listed(k) == IF k \in multi THEN ranges_ui(kid, k, s, click).list
                     ELSE s.ranges[k]
        ranges == [k \in {x \in DOMAIN s.ranges \cup multi : listed(x) # <<>>} |->
                      listed(k)]
        row_widgets == [k \in multi |-> ranges_ui(kid, k, s, click).widgets]
        drawn == [mode |-> s.mode, sel_labels |-> labels, selected_attrs |-> attrs,
                  value_choice |-> choice, custom_value |-> custom, scope |-> scope,
                  single |-> single, ranges |-> ranges, row_widgets |-> row_widgets]
    IN IF stopped THEN [ss |-> drawn, out |-> NoOutput("stopped")]
       ELSE IF duplicate_key
       THEN [ss |-> [drawn EXCEPT !.scope = s.scope, !.single = s.single,
                                  !.ranges = s.ranges,
                                  !.row_widgets = s.row_widgets],
             out |-> NoOutput("exception")]
       ELSE [ss |-> drawn,
             out |-> IF click.kind = "apply"
                     THEN ApplyBlock(d, drawn, selected_track_ids)
                     ELSE NoOutput("idle")]

\* the interaction's run: the store and the display it leaves
Run(s, click) ==
    LET r == Script(doc, key_identity, s, click)
    IN /\ ss' = r.ss
       /\ out' = r.out
       /\ UNCHANGED <<doc, key_identity>>

----------------------------------------------------------------------------
(* The interactions.                                                       *)

\* the "Track selection mode" radio (lines 93-97)
SetMode(m) ==
    /\ m # ss.mode
    /\ Run([ss EXCEPT !.mode = m], NoClick)
    /\ UNCHANGED plain

Without(seq, x) ==
    LET F[i \in 0..Len(seq)] ==
            IF i = 0 THEN <<>>
            ELSE IF seq[i] # x THEN Append(F[i - 1], seq[i]) ELSE F[i - 1]
    IN F[Len(seq)]

\* a multiselect: a picked option goes to the end, a removed one leaves
Toggle(seq, x) == IF x \in Range(seq) THEN Without(seq, x) ELSE Append(seq, x)

\* the "Select tracks" multiselect (lines 104-107)
ToggleTrack(l) ==
    /\ ss.mode = SpecificTracks
    /\ l \in DOMAIN track_label_to_id(doc)
    /\ Run([ss EXCEPT !.sel_labels = Toggle(@, l)], NoClick)
    /\ UNCHANGED plain

\* the "Attributes to modify" multiselect (lines 124-127)
ToggleAttr(a) ==
    /\ ~(ss.mode = SpecificTracks /\ ss.sel_labels = <<>>)
    /\ a \in DOMAIN attribute_values(doc)
    /\ Run([ss EXCEPT !.selected_attrs = Toggle(@, a)], NoClick)
    /\ UNCHANGED plain

\* the "New value" selectbox (lines 146-150)
ChooseValue(a, c) ==
    /\ a \in DOMAIN ss.value_choice
    /\ c \in Range(ValueOptions(doc, a))
    /\ c # ss.value_choice[a]
    /\ Run([ss EXCEPT !.value_choice[a] = c], NoClick)
    /\ UNCHANGED plain

\* the "Custom value" text input (lines 152-156)
TypeCustom(a, t) ==
    /\ a \in DOMAIN ss.custom_value
    /\ t # ss.custom_value[a]
    /\ Run([ss EXCEPT !.custom_value[a] = t], NoClick)
    /\ UNCHANGED plain

\* the scope section is on screen
ScopesDrawn == out.status \in {"idle", "error", "done"}

\* a "Scope" radio (lines 208-213, 249-254)
SetScope(k, sc) ==
    /\ ScopesDrawn
    /\ k \in DOMAIN ss.scope
    /\ sc # ss.scope[k]
    /\ Run([ss EXCEPT !.scope[k] = sc], NoClick)
    /\ UNCHANGED plain

\* a "Start frame" / "End frame" input of a single range (lines 218-232, 259-273)
EditSingle(k, field, v) ==
    /\ ScopesDrawn
    /\ k \in DOMAIN ss.single
    /\ v # ss.single[k][field]
    /\ Run([ss EXCEPT !.single[k][field] = v], NoClick)
    /\ UNCHANGED plain

\* the "Add range" button (lines 196-197)
AddRow(k) ==
    /\ ScopesDrawn
    /\ k \in DOMAIN ss.row_widgets
    /\ Run(ss, [kind |-> "add", key |-> k, idx |-> 0])

\* a "Start" / "End" input of a row of the range editor (lines 174-188)
ChangeRow(k, idx, field, v) ==
    /\ ScopesDrawn
    /\ k \in DOMAIN ss.row_widgets
    /\ idx \in DOMAIN ss.row_widgets[k]
    /\ v # ss.row_widgets[k][idx][field].value
    /\ Run([ss EXCEPT !.row_widgets[k][idx][field].value = v], NoClick)

\* the delete button of a row (lines 190-194)
DeleteRow(k, idx) ==
    /\ ScopesDrawn
    /\ k \in DOMAIN ss.row_widgets
    /\ idx \in DOMAIN ss.row_widgets[k]
    /\ Run(ss, [kind |-> "del", key |-> k, idx |-> idx])

ClickAdd(k) == AddRow(k) /\ UNCHANGED plain
EditRow(k, idx, field, v) == ChangeRow(k, idx, field, v) /\ UNCHANGED plain
ClickDelete(k, idx) == DeleteRow(k, idx) /\ UNCHANGED plain

\* the "Apply changes and download XML" button (line 284)
ClickApply ==
    /\ ScopesDrawn
    /\ Run(ss, [kind |-> "apply", key |-> <<>>, idx |-> 0])
    /\ UNCHANGED plain

----------------------------------------------------------------------------
(* The same list operations on an ordinary sequence.                       *)

PlainOf(k) == IF k \in DOMAIN plain THEN plain[k] ELSE <<>>

PlainSet(k, lst) == [x \in DOMAIN plain \cup {k} |-> IF x = k THEN lst ELSE plain[x]]

\* the editor shows exactly the rows of its list
RowsInStep(k) ==
    /\ k \in DOMAIN ss.row_widgets
    /\ Len(ss.row_widgets[k]) = Len(RangesOf(ss, k))

EditorAdd(k) ==
    /\ AddRow(k)
    /\ plain' = PlainSet(k, Append(PlainOf(k), [start |-> 0, end |-> 0]))

EditorEdit(k, idx, field, v) ==
    /\ RowsInStep(k)
    /\ ChangeRow(k, idx, field, v)
    /\ plain' = PlainSet(k, [PlainOf(k) EXCEPT ![idx][field] = v])

EditorDelete(k, idx) ==
    /\ RowsInStep(k)
    /\ DeleteRow(k, idx)
    /\ plain' = PlainSet(k, SubSeq(PlainOf(k), 1, idx - 1)
                            \o SubSeq(PlainOf(k), idx + 1, Len(PlainOf(k))))

----------------------------------------------------------------------------
(* Specifications.                                                         *)

\* what the user types into a "Custom value" input
TypedTexts == {<<" ">>, <<" ", "x", " ">>}

Scopes == {EntireTrack, SingleRange, MultipleRanges}
Fields == {"start", "end"}

\* the session after the first run of the script on an upload
InitWith(docs, builds) ==
    /\ doc \in docs
    /\ key_identity \in builds
    /\ ss = Script(doc, key_identity, EmptyStore, NoClick).ss
    /\ out = Script(doc, key_identity, EmptyStore, NoClick).out
    /\ plain = EmptyMap

\* Spec: all tracks, any attributes, values and scopes.  No range is added, so
\* no row widget is drawn and the build makes no difference.
Init == InitWith({DocA, DocB}, {TRUE})

Next ==
    \/ \E a \in {Vis, Occ} : ToggleAttr(a)
    \/ \E a \in {Vis, Occ}, c \in {lo, hi, no, CustomChoice} : ChooseValue(a, c)
    \/ \E a \in {Vis, Occ}, t \in TypedTexts : TypeCustom(a, t)
    \/ \E k \in DOMAIN ss.scope, sc \in Scopes : SetScope(k, sc)
    \/ \E k \in DOMAIN ss.single, f \in Fields, v \in 0..MaxFrame : EditSingle(k, f, v)
    \/ ClickApply

Spec == Init /\ [][Next]_vars

\* SpecTracks: the track selection, over documents whose track ids repeat;
\* values stay at their defaults.
InitTracks == InitWith({DocC, DocD}, {TRUE})

NextTracks ==
    \/ \E m \in {AllTracks, SpecificTracks} : SetMode(m)
    \/ \E l \in DOMAIN track_label_to_id(doc) : ToggleTrack(l)
    \/ \E a \in {Vis, Occ} : ToggleAttr(a)
    \/ \E k \in DOMAIN ss.scope, sc \in {EntireTrack, SingleRange} : SetScope(k, sc)
    \/ \E k \in DOMAIN ss.single, v \in 0..MaxFrame : EditSingle(k, "end", v)
    \/ ClickApply

SpecTracks == InitTracks /\ [][NextTracks]_vars

\* SpecRanges: one attribute under every scope, its range list edited row by
\* row, on either build.
InitRanges == InitWith({DocB}, BOOLEAN)

NextRanges ==
    \/ ToggleAttr(Vis)
    \/ \E k \in DOMAIN ss.scope, sc \in Scopes : SetScope(k, sc)
    \/ \E k \in DOMAIN ss.single, f \in Fields, v \in 0..MaxFrame : EditSingle(k, f, v)
    \/ \E k \in DOMAIN ss.row_widgets : Len(RangesOf(ss, k)) < MaxRanges /\ ClickAdd(k)
    \/ \E k \in DOMAIN ss.row_widgets, idx \in 1..MaxRanges, f \in Fields,
          v \in 0..MaxFrame : EditRow(k, idx, f, v)
    \/ \E k \in DOMAIN ss.row_widgets, idx \in 1..MaxRanges : ClickDelete(k, idx)
    \/ ClickApply

SpecRanges == InitRanges /\ [][NextRanges]_vars

\* SpecEditor: the range editor beside an ordinary sequence, on either build.
InitEditor == InitWith({DocA}, BOOLEAN)

NextEditor ==
    \/ ToggleAttr(Vis)
    \/ \E k \in DOMAIN ss.scope : SetScope(k, MultipleRanges)
    \/ \E k \in DOMAIN ss.row_widgets :
          Len(RangesOf(ss, k)) < EditorRanges /\ EditorAdd(k)
    \/ \E k \in DOMAIN ss.row_widgets, idx \in 1..EditorRanges, f \in Fields,
          v \in 0..EditorFrame : EditorEdit(k, idx, f, v)
    \/ \E k \in DOMAIN ss.row_widgets, idx \in 1..EditorRanges : EditorDelete(k, idx)
    \/ ClickApply

SpecEditor == InitEditor /\ [][NextEditor]_vars

\* A rule with the scope "first n frames" on documents whose first track has
\* up to MaxBoxes boxes, at frames in any order and with repetitions, and
\* whose second track is numbered from 0.
FrameTexts == {<<"5">>, <<"1", "0">>, <<"2", "0">>, <<"3", "0">>}

BoxesAt(frames) ==
    [b \in DOMAIN frames |-> Box(Frame(frames[b]), << Attr(Vis, lo), Attr(Occ, no) >>)]

FirstNDoc(frames) ==
    << Track("1", "car", << Attr(Vis, lo) >>, BoxesAt(frames)),
       Track("2", "bus", << >>,
             BoxesAt(<< <<"0">>, <<"1">>, <<"2">>, <<"3">> >>)) >>

InitFirstN ==
    /\ \E len \in 0..MaxBoxes : \E frames \in [1..len -> FrameTexts] :
        doc = FirstNDoc(frames)
    /\ key_identity = TRUE
    /\ ss = [EmptyStore EXCEPT !.selected_attrs = <<Vis>>]
    /\ out = NoOutput("idle")
    /\ plain = EmptyMap

ClickApplyFirstN(n) ==
    /\ out' = ApplyFirstN(doc, n, Vis, hi)
    /\ UNCHANGED <<doc, key_identity, ss, plain>>

NextFirstN == \E n \in 1..MaxN : ClickApplyFirstN(n)

SpecFirstN == InitFirstN /\ [][NextFirstN]_vars

----------------------------------------------------------------------------
(* What the claims speak of, stated over the document and the session.     *)

Applied == out.status = "done"

TargetIds == SelectedTrackIds(doc, ss)
Targeted(t) == doc[t].id \in TargetIds
SelectedNames == Range(ss.selected_attrs)

\* the scope keys the session's rules read
KeysInEffect ==
    {SlotKey(ss.mode, id, a) : id \in TargetIds, a \in SelectedNames}

\* the frame ranges in effect under key k: none under "Entire track"
RangesInEffect(k) ==
    IF ScopeOf(ss, k) = SingleRange THEN {SingleOf(ss, k)}
    ELSE IF ScopeOf(ss, k) = MultipleRanges THEN Range(RangesOf(ss, k))
    ELSE {}

\* box b of track t is in the frame scope of the rule for attribute a
BoxInScope(t, b, a) ==
    LET k == SlotKey(ss.mode, doc[t].id, a)
        f == FrameIdx(doc[t].boxes[b])
    IN \/ ScopeOf(ss, k) = EntireTrack
       \/ \E r \in RangesInEffect(k) : f \in r.start..r.end

\* the positions of the attributes: <<t, i>> track-level, <<t, b, i>> box-level
TrackAttrPositions ==
    UNION {{<<t, i>> : i \in DOMAIN doc[t].attrs} : t \in DOMAIN doc}
BoxAttrPositions ==
    UNION {UNION {{<<t, b, i>> : i \in DOMAIN doc[t].boxes[b].attrs}
                      : b \in DOMAIN doc[t].boxes} : t \in DOMAIN doc}

\* the positions a rule writes
TrackWrites ==
    {p \in TrackAttrPositions :
        Targeted(p[1]) /\ doc[p[1]].attrs[p[2]].name \in SelectedNames}
BoxWrites ==
    {p \in BoxAttrPositions :
        /\ Targeted(p[1])
        /\ doc[p[1]].boxes[p[2]].attrs[p[3]].name \in SelectedNames
        /\ BoxInScope(p[1], p[2], doc[p[1]].boxes[p[2]].attrs[p[3]].name)}
TracksWritten == {p[1] : p \in TrackWrites} \cup {p[1] : p \in BoxWrites}

\* the result has the shape of the input: same tracks, boxes, frames, names
SameShape ==
    /\ Len(out.new_root) = Len(doc)
    /\ \A t \in DOMAIN doc :
        /\ out.new_root[t].id = doc[t].id
        /\ out.new_root[t].label = doc[t].label
        /\ Len(out.new_root[t].attrs) = Len(doc[t].attrs)
        /\ Len(out.new_root[t].boxes) = Len(doc[t].boxes)
        /\ \A b \in DOMAIN doc[t].boxes :
            /\ out.new_root[t].boxes[b].frame = doc[t].boxes[b].frame
            /\ Len(out.new_root[t].boxes[b].attrs) = Len(doc[t].boxes[b].attrs)

----------------------------------------------------------------------------
(* C1: after apply, every attribute, track-level or box-level, whose name  *)
(* is not the attribute name of any rule is exactly as it was in the       *)
(* input.                                                                  *)
C1_OtherAttributesUnchanged ==
    Applied =>
        /\ SameShape
        /\ \A p \in TrackAttrPositions :
            doc[p[1]].attrs[p[2]].name \notin SelectedNames
                => out.new_root[p[1]].attrs[p[2]] = doc[p[1]].attrs[p[2]]
        /\ \A p \in BoxAttrPositions :
            doc[p[1]].boxes[p[2]].attrs[p[3]].name \notin SelectedNames
                => out.new_root[p[1]].boxes[p[2]].attrs[p[3]]
                       = doc[p[1]].boxes[p[2]].attrs[p[3]]

\* only "Visibility" is selected, its values were rewritten, and the document
\* holds "Occluded" at track level and at box level in the same track
C1_Witness ==
    /\ Applied
    /\ ss.selected_attrs = <<Vis>>
    /\ out.new_root # doc
    /\ \E p \in TrackAttrPositions : doc[p[1]].attrs[p[2]].name = Occ
    /\ \E p \in BoxAttrPositions : doc[p[1]].boxes[p[2]].attrs[p[3]].name = Occ

----------------------------------------------------------------------------
(* C2: a rule rewrites every track-level attribute of its name in every    *)
(* targeted track whatever its frame scope is: the track-level result is   *)
(* the same under "Entire track", under the single range (5, 5) and under  *)
(* an empty list of ranges, and a track without boxes gets it as well.     *)

\* the session with every scope in effect replaced by sc; the single range
\* becomes (5, 5) and the list of ranges becomes empty
WithScope(s, sc) ==
    [s EXCEPT
        !.scope  = [k \in KeysInEffect |-> sc],
        !.single = [k \in KeysInEffect |-> [start |-> 5, end |-> 5]],
        !.ranges = EmptyMap]

StartCounters(d) ==
    [root |-> d, total_changed_tracks |-> 0, total_changed_track_attrs |-> 0,
     total_changed_box_attrs |-> 0, track_changed |-> FALSE]

TrackLevel(root) == [t \in DOMAIN root |-> root[t].attrs]

TrackLevelUnder(sc) ==
    TrackLevel(TrackLoop(WithScope(ss, sc), TargetIds, StartCounters(doc), 1).root)

C2_TrackLevelAlwaysWritten ==
    Applied =>
        /\ \A p \in TrackWrites :
            out.new_root[p[1]].attrs[p[2]].text
                = get_new_value(ss, doc[p[1]].attrs[p[2]].name)
        /\ out.total_changed_track_attrs = Cardinality(TrackWrites)
        /\ \A sc \in Scopes : TrackLevelUnder(sc) = TrackLevel(out.new_root)

\* the rule has an empty list of ranges, and a track without boxes had its
\* track-level value changed by it
C2_Witness ==
    /\ Applied
    /\ \E k \in KeysInEffect :
        ScopeOf(ss, k) = MultipleRanges /\ RangesOf(ss, k) = << >>
    /\ \E p \in TrackWrites :
        /\ doc[p[1]].boxes = << >>
        /\ out.new_root[p[1]].attrs[p[2]].text # doc[p[1]].attrs[p[2]].text
    /\ out.total_changed_box_attrs = 0

----------------------------------------------------------------------------
(* C3: under a range scope a box-level attribute of the rule's name is     *)
(* rewritten exactly when the box's frame lies in at least one range, both *)
(* bounds included; ranges may overlap and come in any order, and a box    *)
(* inside several ranges is written and counted once.                      *)
C3_RangeUnion ==
    Applied =>
        /\ \A p \in BoxAttrPositions :
            out.new_root[p[1]].boxes[p[2]].attrs[p[3]].text =
                IF p \in BoxWrites
                THEN get_new_value(ss, doc[p[1]].boxes[p[2]].attrs[p[3]].name)
                ELSE doc[p[1]].boxes[p[2]].attrs[p[3]].text
        /\ out.total_changed_box_attrs = Cardinality(BoxWrites)

\* two ranges given out of order share a frame; a box on a bound of both was
\* rewritten and a box outside both kept its value
C3_Witness ==
    /\ Applied
    /\ \E k \in KeysInEffect :
        /\ ScopeOf(ss, k) = MultipleRanges
        /\ Len(RangesOf(ss, k)) = 2
        /\ RangesOf(ss, k)[1].start > RangesOf(ss, k)[2].start
        /\ RangesOf(ss, k)[1].start = RangesOf(ss, k)[2].end
        /\ \E p \in BoxWrites :
            /\ SlotKey(ss.mode, doc[p[1]].id,
                       doc[p[1]].boxes[p[2]].attrs[p[3]].name) = k
            /\ FrameIdx(doc[p[1]].boxes[p[2]]) = RangesOf(ss, k)[1].start
            /\ out.new_root[p[1]].boxes[p[2]].attrs[p[3]].text
                   # doc[p[1]].boxes[p[2]].attrs[p[3]].text
    /\ \E p \in BoxAttrPositions \ BoxWrites :
        doc[p[1]].boxes[p[2]].attrs[p[3]].name \in SelectedNames

----------------------------------------------------------------------------
(* C9: a box whose frame is missing or is not an integer is given frame 0: *)
(* under a range scope it is rewritten exactly when some range contains 0, *)
(* and apply completes, the other boxes being treated by their frames.     *)

\* the frame attribute is absent, or holds something that is no integer
BadFrame(box) ==
    \/ ~box.frame.has
    \/ Strip(box.frame.text) = << >>
    \/ \E i \in DOMAIN box.frame.text :
        box.frame.text[i] \notin Range(Digits) \cup {" ", "-", "+"}

ZeroInScope(k) ==
    \/ ScopeOf(ss, k) = EntireTrack
    \/ \E r \in RangesInEffect(k) : r.start <= 0 /\ 0 <= r.end

C9_BadFrameIsZero ==
    /\ out.status \in {"done", "error"} =>
        (out.status = "done" <=>
            /\ \A a \in SelectedNames : Strip(get_new_value(ss, a)) # << >>
            /\ \A k \in KeysInEffect :
                \A r \in RangesInEffect(k) : r.start <= r.end)
    /\ Applied =>
        \A p \in BoxAttrPositions :
            LET box == doc[p[1]].boxes[p[2]]
                name == box.attrs[p[3]].name
            IN BadFrame(box) /\ Targeted(p[1]) /\ name \in SelectedNames =>
                out.new_root[p[1]].boxes[p[2]].attrs[p[3]].text =
                    IF ZeroInScope(SlotKey(ss.mode, doc[p[1]].id, name))
                    THEN get_new_value(ss, name)
                    ELSE box.attrs[p[3]].text

\* a range scope without frame 0: the boxes without a usable frame kept
\* their values while a box with a frame inside the range was rewritten
C9_Witness ==
    /\ Applied
    /\ \E k \in KeysInEffect :
        ScopeOf(ss, k) # EntireTrack /\ ~ZeroInScope(k)
    /\ \E p \in BoxAttrPositions \ BoxWrites :
        /\ ~doc[p[1]].boxes[p[2]].frame.has
        /\ doc[p[1]].boxes[p[2]].attrs[p[3]].name \in SelectedNames
    /\ \E p \in BoxAttrPositions \ BoxWrites :
        /\ doc[p[1]].boxes[p[2]].frame.has
        /\ BadFrame(doc[p[1]].boxes[p[2]])
        /\ doc[p[1]].boxes[p[2]].attrs[p[3]].name \in SelectedNames
    /\ \E p \in BoxWrites :
        out.new_root[p[1]].boxes[p[2]].attrs[p[3]].text
            # doc[p[1]].boxes[p[2]].attrs[p[3]].text

----------------------------------------------------------------------------
(* C5: track-attributes-changed counts the writes to track-level           *)
(* attributes, box-attributes-changed the writes to box-level attributes,  *)
(* and tracks-changed the distinct track elements with at least one write, *)
(* once however many rules wrote into them; tracks-changed never exceeds   *)
(* the number of targeted track elements and is 0 exactly when the other   *)
(* two are 0.                                                              *)
C5_Counters ==
    Applied =>
        /\ out.total_changed_track_attrs = Cardinality(TrackWrites)
        /\ out.total_changed_box_attrs = Cardinality(BoxWrites)
        /\ out.total_changed_tracks = Cardinality(TracksWritten)
        /\ out.total_changed_tracks
               <= Cardinality({t \in DOMAIN doc : Targeted(t)})
        /\ out.total_changed_tracks = 0 <=>
               /\ out.total_changed_track_attrs = 0
               /\ out.total_changed_box_attrs = 0

\* two rules wrote into the same track, one at both levels, and another
\* targeted track received no write
C5_Witness ==
    /\ Applied
    /\ Len(ss.selected_attrs) = 2
    /\ \E t \in DOMAIN doc : Targeted(t) /\ t \notin TracksWritten
    /\ \E p \in TrackWrites, q \in BoxWrites :
        /\ p[1] = q[1]
        /\ doc[p[1]].attrs[p[2]].name
               # doc[q[1]].boxes[q[2]].attrs[q[3]].name
    /\ out.total_changed_tracks > 1
    /\ out.total_changed_tracks < out.total_changed_track_attrs
    /\ out.total_changed_tracks < out.total_changed_box_attrs

----------------------------------------------------------------------------
(* C6: apply validates every rule before anything is written: an empty or  *)
(* whitespace-only new value, or a range in effect whose end is below its  *)
(* start, stops the run with an error and produces no document, whichever  *)
(* rule it belongs to; a run that writes has only valid rules.             *)
SessionInvalid ==
    \/ \E a \in SelectedNames : Strip(get_new_value(ss, a)) = << >>
    \/ \E k \in KeysInEffect : \E r \in RangesInEffect(k) : r.end < r.start

C6_ValidationFirst ==
    out.status \in {"done", "error"} =>
        /\ out.status = "error" <=> SessionInvalid
        /\ out.status = "error" =>
            /\ out.new_root = << >>
            /\ out.total_changed_tracks = 0
            /\ out.total_changed_track_attrs = 0
            /\ out.total_changed_box_attrs = 0

\* the first rule is valid and would write, the second has a single range
\* whose end is below its start: the run stopped with an error
C6_Witness ==
    /\ out.status = "error"
    /\ Len(ss.selected_attrs) = 2
    /\ Strip(get_new_value(ss, ss.selected_attrs[1])) # << >>
    /\ Strip(get_new_value(ss, ss.selected_attrs[2])) # << >>
    /\ \A id \in TargetIds :
        /\ RangesInEffect(SlotKey(ss.mode, id, ss.selected_attrs[1])) = {}
        /\ \E r \in RangesInEffect(SlotKey(ss.mode, id, ss.selected_attrs[2])) :
            r.end < r.start
    /\ \E t \in DOMAIN doc : \E i \in DOMAIN doc[t].attrs :
        /\ doc[t].attrs[i].name = ss.selected_attrs[1]
        /\ doc[t].attrs[i].text # get_new_value(ss, ss.selected_attrs[1])

----------------------------------------------------------------------------
(* C7: a track element whose id is not targeted comes out of apply exactly *)
(* as it went in and adds nothing to any counter; a set of ids none of     *)
(* which is in the document changes nothing and counts nothing.            *)

\* the document without the track elements that are not targeted
RECURSIVE TargetedOnly(_, _)
TargetedOnly(d, ids) ==
    IF d = << >> THEN << >>
    ELSE IF Head(d).id \in ids THEN <<Head(d)>> \o TargetedOnly(Tail(d), ids)
    ELSE TargetedOnly(Tail(d), ids)

Counters(o) ==
    <<o.total_changed_tracks, o.total_changed_track_attrs,
      o.total_changed_box_attrs>>

C7_UntargetedUntouched ==
    Applied =>
        /\ \A t \in DOMAIN doc :
            ~Targeted(t) => out.new_root[t] = doc[t]
        /\ Counters(out)
               = Counters(ApplyBlock(TargetedOnly(doc, TargetIds), ss, TargetIds))
        /\ ApplyBlock(doc, ss, {"nonexistent"}).new_root = doc
        /\ Counters(ApplyBlock(doc, ss, {"nonexistent"})) = <<0, 0, 0>>

\* a chosen track was rewritten while a track that was not chosen, holding
\* an attribute of a rule's name with another value, stayed as it was
C7_Witness ==
    /\ Applied
    /\ ss.mode = SpecificTracks
    /\ out.total_changed_tracks > 0
    /\ out.new_root # doc
    /\ \E p \in TrackAttrPositions :
        /\ ~Targeted(p[1])
        /\ doc[p[1]].attrs[p[2]].name \in SelectedNames
        /\ doc[p[1]].attrs[p[2]].text
               # get_new_value(ss, doc[p[1]].attrs[p[2]].name)

----------------------------------------------------------------------------
(* C8: track elements that share a targeted id are each processed, under   *)
(* the same rules and the same scope, and each one that receives a write   *)
(* counts in tracks-changed.                                               *)
SharesId(t) == \E u \in DOMAIN doc : u # t /\ doc[u].id = doc[t].id

C8_DuplicateIds ==
    Applied =>
        /\ \A p \in TrackWrites : SharesId(p[1]) =>
            out.new_root[p[1]].attrs[p[2]].text
                = get_new_value(ss, doc[p[1]].attrs[p[2]].name)
        /\ \A p \in BoxWrites : SharesId(p[1]) =>
            out.new_root[p[1]].boxes[p[2]].attrs[p[3]].text
                = get_new_value(ss, doc[p[1]].boxes[p[2]].attrs[p[3]].name)
        /\ out.total_changed_tracks >=
               Cardinality({t \in TracksWritten : SharesId(t)})
        /\ out.total_changed_tracks
               - Cardinality({t \in TracksWritten : ~SharesId(t)})
               = Cardinality({t \in TracksWritten : SharesId(t)})

\* two track elements with the same id were both rewritten and both counted
C8_Witness ==
    /\ Applied
    /\ \E t, u \in TracksWritten :
        /\ t < u
        /\ doc[t].id = doc[u].id
        /\ out.new_root[t] # doc[t]
        /\ out.new_root[u] # doc[u]
    /\ out.total_changed_tracks >= 2

----------------------------------------------------------------------------
(* C10: the list of ranges a rule is applied with is the list an ordinary  *)
(* sequence would hold after the same additions, edits and deletions made  *)
(* in the editor: the editor carries no behaviour of its own across the    *)
(* reruns of the script.                                                   *)
C10_EditorIsSequence ==
    out.status \in {"done", "error"} =>
        \A k \in KeysInEffect :
            ScopeOf(ss, k) = MultipleRanges => RangesOf(ss, k) = PlainOf(k)

----------------------------------------------------------------------------
(* C4: the scope "first n frames" goes by rank within the track: the boxes *)
(* rewritten are exactly the first n of the track's boxes in ascending     *)
(* order of frame, boxes of equal frame in document order, and not the     *)
(* boxes whose frame is below n; with boxes at frames 10, 20, 30, 5 and    *)
(* n = 2 they are the boxes at frames 5 and 10.                            *)

\* the number of boxes of track t that come before box b by frame, b included
RankInTrack(t, b) ==
    Cardinality({c \in DOMAIN doc[t].boxes :
        \/ FrameIdx(doc[t].boxes[c]) < FrameIdx(doc[t].boxes[b])
        \/ FrameIdx(doc[t].boxes[c]) = FrameIdx(doc[t].boxes[b]) /\ c <= b})

\* the boxes of track t whose "Visibility" the run rewrote
Rewritten(t) ==
    {b \in DOMAIN doc[t].boxes :
        out.report.new_root[t].boxes[b].attrs[1].text = hi}

SpecExampleFrames == << <<"1", "0">>, <<"2", "0">>, <<"3", "0">>, <<"5">> >>

C4_FirstNByRank ==
    out.status = "done" =>
        /\ \A t \in DOMAIN doc :
            Rewritten(t) =
                {b \in DOMAIN doc[t].boxes : RankInTrack(t, b) <= out.first_n}
        /\ out.report.total_changed_box_attrs =
               Cardinality(UNION {{<<t, b>> : b \in Rewritten(t)} : t \in DOMAIN doc})
        /\ \A t \in DOMAIN doc : \A b \in DOMAIN doc[t].boxes :
               out.report.new_root[t].boxes[b].attrs[2] = doc[t].boxes[b].attrs[2]
        /\ doc = FirstNDoc(SpecExampleFrames) /\ out.first_n = 2
               => Rewritten(1) = {1, 4}

\* the specification's example: frames 10, 20, 30, 5 and n = 2; the boxes at
\* 5 and 10 were rewritten although no frame is below 2, and the second
\* track, numbered from 0, had its boxes at 0 and 1 rewritten
C4_Witness ==
    /\ out.status = "done"
    /\ out.first_n = 2
    /\ doc = FirstNDoc(SpecExampleFrames)
    /\ Rewritten(1) = {1, 4}
    /\ Rewritten(2) = {1, 2}
    /\ \A b \in DOMAIN doc[1].boxes : FrameIdx(doc[1].boxes[b]) >= 2
    /\ out.report.total_changed_tracks = 2

====
